---------------------------- MODULE Spec2Model ----------------------------
(***************************************************************************)
(* Customer / order CRUD backend (src/main.py, src/schemas.py).            *)
(*                                                                         *)
(* Representation                                                          *)
(*   - A store id (bson ObjectId) is a natural number.  An id *string*, as *)
(*     it appears in a URL path or in Order.customer_id, is a record       *)
(*     [n, upper]: the 24 hex digits of ObjectId n, written with lower     *)
(*     case digits (upper = FALSE, what str(ObjectId) produces) or with    *)
(*     upper case digits (upper = TRUE, which ObjectId(...) also parses).   *)
(*   - A float is an IEEE 754 binary64 value [cls, neg, m, e]: cls is      *)
(*     "fin", "inf" or "nan"; a finite value is (-1)^neg * m * 2^e, with m  *)
(*     a natural number below 2^53 written as a sequence of 15-bit limbs,  *)
(*     least significant limb first, and m >= 2^52 unless e = MinExp.      *)
(*     Every arithmetic operation rounds its exact result to the nearest   *)
(*     such value, a tie going to the even mantissa.  Zero is [m = <<>>,   *)
(*     e = 0]; its sign is not kept.  quantity is a plain integer.         *)
(*   - Optional[T] is a set with at most one element: {} is None.          *)
(*   - A response is [status, detail, id]: 200 is a normal return, 400 /   *)
(*     404 an HTTPException, 500 any other exception leaving the handler;  *)
(*     id is the "id" of the returned document when one is returned.       *)
(*   - A handler is a sequence of store calls.  A store call is one atomic *)
(*     step, taken together with the handler's own computation up to its   *)
(*     next store call.  The handlers are plain functions, which FastAPI   *)
(*     runs on worker threads: the steps of two requests interleave.       *)
(***************************************************************************)
EXTENDS Integers, Sequences, FiniteSets, TLC

VARIABLES customers, orders, nextId,   \* the two collections, the next _id
          pc, req, loc, resp,           \* per worker thread: position, request,
                                        \* local variables, response
          orderObj, phase               \* an Order object on its own

vars == <<customers, orders, nextId, pc, req, loc, resp, orderObj, phase>>

storeVars == <<customers, orders, nextId>>
threadVars == <<pc, req, loc, resp>>
pricingVars == <<orderObj, phase>>

\* Bound of the model: the number of documents the store ever inserts.
MaxIds == 2

(***************************************************************************)
(* Natural numbers of any size: sequences of limbs, least significant      *)
(* first, without leading zero limbs.  They carry the 53-bit mantissas and  *)
(* the exact results of float operations before rounding.                  *)
(***************************************************************************)
LimbBits == 15
Base == 32768

RECURSIVE BTrim(_)
BTrim(a) ==
    IF a = <<>> THEN a
    ELSE IF a[Len(a)] = 0 THEN BTrim(SubSeq(a, 1, Len(a) - 1))
    ELSE a

RECURSIVE BFromInt(_)
BFromInt(n) == IF n = 0 THEN <<>> ELSE <<n % Base>> \o BFromInt(n \div Base)

Limb(a, i) == IF i <= Len(a) THEN a[i] ELSE 0

RECURSIVE BAddFrom(_, _, _, _)
BAddFrom(a, b, i, carry) ==
    IF i > Len(a) /\ i > Len(b)
    THEN (IF carry = 0 THEN <<>> ELSE <<carry>>)
    ELSE LET s == Limb(a, i) + Limb(b, i) + carry
         IN <<s % Base>> \o BAddFrom(a, b, i + 1, s \div Base)

BAdd(a, b) == BAddFrom(a, b, 1, 0)

RECURSIVE BSubFrom(_, _, _, _)
BSubFrom(a, b, i, borrow) ==
    IF i > Len(a) THEN <<>>
    ELSE LET d == Limb(a, i) - Limb(b, i) - borrow
         IN IF d < 0 THEN <<d + Base>> \o BSubFrom(a, b, i + 1, 1)
            ELSE <<d>> \o BSubFrom(a, b, i + 1, 0)

\* a - b, for a >= b
BSub(a, b) == BTrim(BSubFrom(a, b, 1, 0))

RECURSIVE BCmpAt(_, _, _)
BCmpAt(a, b, i) ==
    IF i = 0 THEN 0
    ELSE IF a[i] < b[i] THEN -1
    ELSE IF a[i] > b[i] THEN 1
    ELSE BCmpAt(a, b, i - 1)

\* -1, 0 or 1 as a < b, a = b or a > b
BCmp(a, b) ==
    IF Len(a) < Len(b) THEN -1
    ELSE IF Len(a) > Len(b) THEN 1
    ELSE BCmpAt(a, b, Len(a))

RECURSIVE BMulSmallFrom(_, _, _, _)
BMulSmallFrom(a, k, i, carry) ==
    IF i > Len(a) THEN (IF carry = 0 THEN <<>> ELSE <<carry>>)
    ELSE LET p == a[i] * k + carry
         IN <<p % Base>> \o BMulSmallFrom(a, k, i + 1, p \div Base)

\* a * k, for 0 <= k < Base
BMulSmall(a, k) == IF k = 0 THEN <<>> ELSE BMulSmallFrom(a, k, 1, 0)

RECURSIVE BMulFrom(_, _, _)
BMulFrom(a, b, j) ==
    IF j > Len(b) THEN <<>>
    ELSE BAdd(BMulSmall(a, b[j]), <<0>> \o BMulFrom(a, b, j + 1))

BMul(a, b) == IF a = <<>> THEN <<>> ELSE BTrim(BMulFrom(a, b, 1))

RECURSIVE BDivAt(_, _, _, _)
BDivAt(a, d, i, r) ==
    IF i = 0 THEN <<>>
    ELSE Append(BDivAt(a, d, i - 1, (r * Base + a[i]) % d), (r * Base + a[i]) \div d)

RECURSIVE BModAt(_, _, _, _)
BModAt(a, d, i, r) ==
    IF i = 0 THEN r ELSE BModAt(a, d, i - 1, (r * Base + a[i]) % d)

\* quotient and remainder of a by d, for 0 < d < Base
BDivSmall(a, d) == BTrim(BDivAt(a, d, Len(a), 0))
BModSmall(a, d) == BModAt(a, d, Len(a), 0)

\* a * 2^s
BShl(a, s) ==
    IF a = <<>> THEN a
    ELSE [i \in 1..(s \div LimbBits) |-> 0] \o BMulSmall(a, 2 ^ (s % LimbBits))

\* a \div 2^s
BShr(a, s) ==
    IF s \div LimbBits >= Len(a) THEN <<>>
    ELSE BDivSmall(SubSeq(a, s \div LimbBits + 1, Len(a)), 2 ^ (s % LimbBits))

\* the number of binary digits of a
BitLen(a) ==
    IF a = <<>> THEN 0
    ELSE LimbBits * (Len(a) - 1)
         + (CHOOSE k \in 1..LimbBits : 2 ^ (k - 1) <= a[Len(a)] /\ a[Len(a)] < 2 ^ k)

\* q or q + 1: q + 1 when the part cut off is more than a half (c > 0), or
\* is a half (c = 0) and q is odd.
TieToEven(q, c) ==
    IF c > 0 \/ (c = 0 /\ q # <<>> /\ q[1] % 2 = 1) THEN BAdd(q, <<1>>) ELSE q

\* The quotient q = a \div 2^s moved to the natural number nearest to a / 2^s.
NearestFrom(a, s, q) ==
    TieToEven(q, BCmp(BShl(BSub(a, BShl(q, s)), 1), BShl(<<1>>, s)))

\* a / 2^s rounded to the nearest natural number, a tie going to the even
\* one (s > 0).
BShrNearestEven(a, s) == NearestFrom(a, s, BShr(a, s))

(***************************************************************************)
(* Floats (Python float, IEEE 754 binary64)                                *)
(***************************************************************************)
MantBits == 53
MinExp == -1074
MaxExp == 971

Fin(neg, m, e) == [cls |-> "fin", neg |-> neg, m |-> m, e |-> e]
Zero == Fin(FALSE, <<>>, 0)
Inf == [cls |-> "inf", neg |-> FALSE, m |-> <<>>, e |-> 0]
NegInf == [cls |-> "inf", neg |-> TRUE, m |-> <<>>, e |-> 0]
NaN == [cls |-> "nan", neg |-> FALSE, m |-> <<>>, e |-> 0]

IsNaN(x) == x.cls = "nan"
IsFinite(x) == x.cls = "fin"
IsZero(x) == x.cls = "fin" /\ x.m = <<>>

\* The float of mantissa m and exponent e; a value of 2^1024 or more
\* overflows to an infinity.
Pack(neg, m, e) ==
    IF m = <<>> THEN Zero
    ELSE IF e > MaxExp THEN (IF neg THEN NegInf ELSE Inf)
    ELSE Fin(neg, m, e)

\* The mantissa q at exponent e, after a carry into a 54th digit.
Renormalise(neg, q, e) ==
    IF BitLen(q) > MantBits THEN Pack(neg, BShr(q, 1), e + 1) ELSE Pack(neg, q, e)

\* M * 2^e with the last sh binary digits of M rounded away.
CutDigits(neg, M, e, sh) ==
    IF sh <= 0 THEN Pack(neg, BShl(M, -sh), e + sh)
    ELSE Renormalise(neg, BShrNearestEven(M, sh), e + sh)

\* The digits to cut from a mantissa that has sh0 digits more than 53: more
\* of them below 2^-1022, where floats have fewer digits.
DigitsToCut(e, sh0) == IF e + sh0 < MinExp THEN MinExp - e ELSE sh0

\* The float nearest to the exact value M * 2^e: M is cut to 53 binary
\* digits (fewer below 2^-1022), round half to even.
RoundToDouble(neg, M, e) ==
    IF M = <<>> THEN Zero
    ELSE CutDigits(neg, M, e, DigitsToCut(e, BitLen(M) - MantBits))

\* The float nearest to (N / d) * 2^e for N = n * 2^k, 0 < d < Base: the
\* quotient of N by d with one more binary digit that tells whether
\* anything is left.
RoundQuotient(neg, N, d, e) ==
    RoundToDouble(neg,
                  BAdd(BShl(BDivSmall(N, d), 1),
                       IF BModSmall(N, d) = 0 THEN <<>> ELSE <<1>>),
                  e - 1)

\* The float nearest to N / d, for a natural number N and 0 < d < Base: the
\* quotient is taken to 75 binary places.
NearestRatio(neg, N, d) == RoundQuotient(neg, BShl(N, 75), d, -75)

\* float(n), as the int operand of float * int is converted
FromInt(n) == RoundToDouble(n < 0, BFromInt(IF n < 0 THEN -n ELSE n), 0)

\* The float a JSON number of n thousandths is parsed to (2675 for 2.675).
Milli(n) == NearestRatio(FALSE, BFromInt(n), 1000)

FNeg(a) == IF IsNaN(a) \/ IsZero(a) THEN a ELSE [a EXCEPT !.neg = ~a.neg]

\* Comparison of the magnitudes of two finite non-zero floats.
MagCmp(a, b) ==
    IF a.e # b.e THEN (IF a.e < b.e THEN -1 ELSE 1) ELSE BCmp(a.m, b.m)

Rank(a) ==
    IF a.cls = "inf" THEN (IF a.neg THEN -2 ELSE 2)
    ELSE IF a.m = <<>> THEN 0
    ELSE IF a.neg THEN -1 ELSE 1

\* -1, 0 or 1 for two floats that are not nan.
FCmp(a, b) ==
    IF Rank(a) # Rank(b) THEN (IF Rank(a) < Rank(b) THEN -1 ELSE 1)
    ELSE IF Rank(a) = 1 THEN MagCmp(a, b)
    ELSE IF Rank(a) = -1 THEN MagCmp(b, a)
    ELSE 0

\* a < b on floats: every comparison with nan is False.
FLess(a, b) == ~IsNaN(a) /\ ~IsNaN(b) /\ FCmp(a, b) < 0
\* a == b on floats: nan equals nothing, itself included.
FEq(a, b) == ~IsNaN(a) /\ ~IsNaN(b) /\ FCmp(a, b) = 0
\* a >= b, as pydantic's ge= constraint evaluates it.
FGe(a, b) == ~IsNaN(a) /\ ~IsNaN(b) /\ FCmp(a, b) >= 0

\* Python's min(a, b) and max(a, b): the first argument unless the second
\* is strictly smaller (larger).
PyMin(a, b) == IF FLess(b, a) THEN b ELSE a
PyMax(a, b) == IF FLess(a, b) THEN b ELSE a

\* Two finite floats whose exponents differ by more than this many binary
\* places add up to the larger one.
MaxAlign == 64

\* The sum of the floats of signs aneg, bneg and magnitudes A * 2^e, B * 2^e.
AddMagnitudes(aneg, A, bneg, B, e) ==
    RoundToDouble(IF aneg = bneg \/ BCmp(A, B) >= 0 THEN aneg ELSE bneg,
                  IF aneg = bneg THEN BAdd(A, B)
                  ELSE IF BCmp(A, B) >= 0 THEN BSub(A, B)
                  ELSE BSub(B, A),
                  e)

\* a + b with both mantissas brought to the exponent e, the smaller of the two.
AddAligned(a, b, e) ==
    AddMagnitudes(a.neg, BShl(a.m, a.e - e), b.neg, BShl(b.m, b.e - e), e)

AddFinite(a, b) ==
    IF IsZero(a) THEN b
    ELSE IF IsZero(b) THEN a
    ELSE IF a.e - b.e > MaxAlign THEN a
    ELSE IF b.e - a.e > MaxAlign THEN b
    ELSE AddAligned(a, b, IF a.e < b.e THEN a.e ELSE b.e)

\* a + b
FAdd(a, b) ==
    IF IsNaN(a) \/ IsNaN(b) THEN NaN
    ELSE IF a.cls = "inf" THEN (IF b.cls = "inf" /\ b.neg # a.neg THEN NaN ELSE a)
    ELSE IF b.cls = "inf" THEN b
    ELSE AddFinite(a, b)

\* a - b
FSub(a, b) == FAdd(a, FNeg(b))

\* a * b
FMul(a, b) ==
    IF IsNaN(a) \/ IsNaN(b) THEN NaN
    ELSE IF a.cls = "inf" \/ b.cls = "inf"
    THEN (IF IsZero(a) \/ IsZero(b) THEN NaN
          ELSE IF a.neg = b.neg THEN Inf ELSE NegInf)
    ELSE RoundToDouble(a.neg # b.neg, BMul(a.m, b.m), a.e + b.e)

\* a / d for the float of an integer 0 < d < Base (the code divides by
\* 100.0): the quotient of the mantissa is taken to 20 more binary places.
FDivInt(a, d) ==
    IF ~IsFinite(a) THEN a ELSE RoundQuotient(a.neg, BShl(a.m, 20), d, a.e - 20)

\* round(x, 2): the exact value of x is rounded to a whole number K of
\* hundredths, round half to even, and the result is the float nearest to
\* K / 100.  inf, nan and integral values round to themselves.
Round2(x) ==
    IF ~IsFinite(x) \/ x.e >= 0 THEN x
    ELSE NearestRatio(x.neg, BShrNearestEven(BMulSmall(x.m, 100), -x.e), 100)

(***************************************************************************)
(* Ids                                                                     *)
(***************************************************************************)
Ids == 1..MaxIds
IdStr == [n : Ids, upper : BOOLEAN]

\* bson.ObjectId(s): the hex digits are parsed whatever their case.
ObjectId(s) == s.n
\* str(oid): lower case hex.
StrOfId(oid) == [n |-> oid, upper |-> FALSE]
\* The id strings as the API returns them.
CanonicalIdStr == {StrOfId(n) : n \in Ids}

(***************************************************************************)
(* Optional values and documents                                           *)
(***************************************************************************)
None == {}
Some(x) == {x}
TheVal(s) == CHOOSE x \in s : TRUE

\* payload.model_dump(exclude_none=True): the supplied fields and their values.
model_dump_exclude_none(payload) ==
    [f \in {g \in DOMAIN payload : payload[g] # None} |-> TheVal(payload[f])]

\* update_one(..., {"$set": upd}) applied to the matched document.
SetFields(doc, upd) ==
    [f \in DOMAIN doc \cup DOMAIN upd |-> IF f \in DOMAIN upd THEN upd[f] ELSE doc[f]]

\* The document insert_one stores: the model's fields and the new _id.
WithId(data, oid) ==
    [f \in DOMAIN data \cup {"_id"} |-> IF f = "_id" THEN oid ELSE data[f]]

\* database.create_document(collection, data): model_dump() and insert_one.
create_document(coll, data, oid) == coll \cup {WithId(data, oid)}

\* The stored document without its _id.
Fields(doc) == [f \in DOMAIN doc \ {"_id"} |-> doc[f]]

(***************************************************************************)
(* Schemas                                                                 *)
(***************************************************************************)
CustomerStatuses == {"active", "inactive"}
OrderStatuses == {"draft", "pending", "paid", "shipped", "cancelled"}
DiscountTypes == {"amount", "percent"}

\* OrderItem's constraints: unit_price >= 0, quantity >= 1, line_total
\* None or >= 0.
OrderItemValid(it) ==
    /\ FGe(it.unit_price, Zero)
    /\ it.quantity >= 1
    /\ (it.line_total = None \/ FGe(TheVal(it.line_total), Zero))

\* Order(...) accepts the values: the Literal and ge=0 constraints.
OrderValid(o) ==
    /\ o.status \in OrderStatuses
    /\ o.discount_type \in DiscountTypes
    /\ FGe(o.discount_value, Zero)
    /\ FGe(o.subtotal, Zero)
    /\ FGe(o.total, Zero)
    /\ \A i \in 1..Len(o.items) : OrderItemValid(o.items[i])

(***************************************************************************)
(* Order pricing                                                           *)
(***************************************************************************)
\* item.line_total = round(item.unit_price * item.quantity, 2)
LineTotal(it) == Round2(FMul(it.unit_price, FromInt(it.quantity)))

WithLineTotals(items) ==
    [i \in 1..Len(items) |-> [items[i] EXCEPT !.line_total = Some(LineTotal(items[i]))]]

\* subtotal = 0.0; for item in items: subtotal += item.line_total
RECURSIVE Accumulate(_, _)
Accumulate(items, k) ==
    IF k = 0 THEN Zero
    ELSE FAdd(Accumulate(items, k - 1), TheVal(items[k].line_total))

\* discount = min(discount_value, subtotal) for "amount", else
\* min(round(subtotal * (discount_value / 100.0), 2), subtotal)
Discount(discount_type, discount_value, subtotal) ==
    IF discount_type = "amount"
    THEN PyMin(discount_value, subtotal)
    ELSE PyMin(Round2(FMul(subtotal, FDivInt(discount_value, 100))), subtotal)

\* lines 42-43: every item gets its line total
SetLineTotals(order) == [order EXCEPT !.items = WithLineTotals(@)]

\* lines 41-45: order.subtotal = round(subtotal, 2)
SetSubtotal(order) ==
    [order EXCEPT !.subtotal = Round2(Accumulate(order.items, Len(order.items)))]

\* lines 46-52: order.total = round(max(order.subtotal - discount, 0.0), 2)
SetTotal(order) ==
    [order EXCEPT !.total =
        Round2(PyMax(FSub(order.subtotal,
                          Discount(order.discount_type, order.discount_value,
                                   order.subtotal)),
                     Zero))]

compute_order_totals(order) == SetTotal(SetSubtotal(SetLineTotals(order)))

(***************************************************************************)
(* Store calls.  Each operator below is one store call of a handler with   *)
(* the handler's code up to its next store call: it takes the store s =    *)
(* [customers, orders, nextId] and what the handler holds in its local     *)
(* variables, and yields the store after the call with either the          *)
(* response (pc = "done") or the label of the next call and the locals it  *)
(* will need.                                                              *)
(***************************************************************************)
Store == [customers |-> customers, orders |-> orders, nextId |-> nextId]

Idle == [status |-> 0, detail |-> "idle", id |-> None]
Pending == [status |-> 0, detail |-> "pending", id |-> None]

\* return / raise HTTPException(status_code, detail)
Return(s, status, detail) ==
    [store |-> s, pc |-> "done", loc |-> None,
     resp |-> [status |-> status, detail |-> detail, id |-> None]]

\* The handler goes on to its store call `label` with locals l.
Continue(s, label, l) ==
    [store |-> s, pc |-> label, loc |-> Some(l), resp |-> Pending]

\* db.<collection>.find_one({"_id": ObjectId(id)}) finds a document.
FindById(coll, id) == \E d \in coll : d._id = ObjectId(id)
DocById(coll, id) == CHOOSE d \in coll : d._id = ObjectId(id)
\* db.<collection>.delete_one({"_id": oid})
DeleteById(coll, oid) == {d \in coll : d._id # oid}
\* deleted_count
DeletedCount(coll, after) == Cardinality(coll) - Cardinality(after)

\* return to_str_id(doc) for doc = find_one({"_id": ObjectId(id)}): the
\* document with its id as a string, or null when find_one gave None.
to_str_id(s, coll, id) ==
    [store |-> s, pc |-> "done", loc |-> None,
     resp |-> IF FindById(coll, id)
              THEN [status |-> 200, detail |-> "ok",
                    id |-> Some(StrOfId(DocById(coll, id)._id))]
              ELSE [status |-> 200, detail |-> "null", id |-> None]]

\* get_customer without its "not found" branch.
get_customer_unchecked(s, customer_id) == Return(s, 200, "ok")

get_customer(s, customer_id) ==
    IF ~FindById(s.customers, customer_id)
    THEN Return(s, 404, "Customer not found")
    ELSE to_str_id(s, s.customers, customer_id)

get_order(s, order_id) ==
    IF ~FindById(s.orders, order_id)
    THEN Return(s, 404, "Order not found")
    ELSE to_str_id(s, s.orders, order_id)

\* db.customer.find_one({"email": payload.email})
EmailTaken(cs, email) == \E c \in cs : c.email = email

\* create_customer: existing = find_one(...); 400 if existing
create_customer_find(s, payload) ==
    IF EmailTaken(s.customers, payload.email)
    THEN Return(s, 400, "Email already exists")
    ELSE Continue(s, "cc_insert", payload)

\* customer_id = create_document("customer", payload)
create_customer_insert(s, payload) ==
    Continue([s EXCEPT !.customers = create_document(@, payload, s.nextId),
                       !.nextId = @ + 1],
             "cc_fetch", StrOfId(s.nextId))

\* doc = db.customer.find_one({"_id": ObjectId(customer_id)}); return to_str_id(doc)
create_customer_fetch(s, customer_id) == to_str_id(s, s.customers, customer_id)

\* The uniqueness check of an update without its "$ne" clause.
EmailClashAnyone(cs, email, oid) == \E c \in cs : c.email = email

\* db.customer.find_one({"email": email, "_id": {"$ne": oid}})
EmailClash(cs, email, oid) == \E c \in cs : c.email = email /\ c._id # oid

\* res = db.customer.update_one({"_id": ObjectId(customer_id)}, {"$set": update_data});
\* 404 if res.matched_count == 0
update_customer_update(s, l) ==
    LET oid == ObjectId(l.customer_id)
        matched_count == Cardinality({c \in s.customers : c._id = oid})
        updated == {IF c._id = oid THEN SetFields(c, l.update_data) ELSE c :
                        c \in s.customers}
    IN IF matched_count = 0
       THEN Return(s, 404, "Customer not found")
       ELSE Continue([s EXCEPT !.customers = updated], "uc_get", l.customer_id)

\* update_customer up to and including its first store call: get_customer
\* for an empty body, the uniqueness find_one when the body has an email,
\* update_one otherwise.
update_customer_begin(s, customer_id, payload) ==
    LET update_data == model_dump_exclude_none(payload)
        l == [customer_id |-> customer_id, update_data |-> update_data]
    IN IF DOMAIN update_data = {} THEN get_customer(s, customer_id)
       ELSE IF "email" \in DOMAIN update_data
       THEN (IF EmailClash(s.customers, update_data.email, ObjectId(customer_id))
             THEN Return(s, 400, "Email already exists")
             ELSE Continue(s, "uc_update", l))
       ELSE update_customer_update(s, l)

\* return get_customer(customer_id)
update_customer_get(s, customer_id) == get_customer(s, customer_id)

\* db.order.find_one({"customer_id": customer_id}): the stored string is
\* compared with the path's string.
HasOrder(os, customer_id) == \E o \in os : o.customer_id = customer_id

\* delete_customer: has_order = find_one(...); 400 if has_order
delete_customer_find(s, customer_id) ==
    IF HasOrder(s.orders, customer_id)
    THEN Return(s, 400, "Cannot delete customer with existing orders")
    ELSE Continue(s, "dc_delete", customer_id)

\* delete_customer answering success without its delete_one.
delete_customer_kept(s, customer_id) == Return(s, 200, "ok")

\* res = db.customer.delete_one(...); 404 if res.deleted_count == 0
delete_customer_delete(s, customer_id) ==
    LET after == DeleteById(s.customers, ObjectId(customer_id))
    IN IF DeletedCount(s.customers, after) = 0
       THEN Return(s, 404, "Customer not found")
       ELSE Return([s EXCEPT !.customers = after], 200, "ok")

\* create_order without its customer check.
CustomerNeverChecked(cs, customer_id) == TRUE

\* db.customer.find_one({"_id": ObjectId(payload.customer_id)})
CustomerExists(cs, customer_id) == FindById(cs, customer_id)

\* create_order: 400 unless the customer is found; order = compute_order_totals(payload)
create_order_find(s, payload) ==
    IF ~CustomerExists(s.customers, payload.customer_id)
    THEN Return(s, 400, "Invalid customer_id")
    ELSE Continue(s, "co_insert", compute_order_totals(payload))

\* create_document("order", order)
InsertOrder(os, order, nid) == create_document(os, order, nid)

\* order_id = create_document("order", order)
create_order_insert(s, order) ==
    Continue([s EXCEPT !.orders = InsertOrder(@, order, s.nextId),
                       !.nextId = @ + 1],
             "co_fetch", StrOfId(s.nextId))

\* doc = db.order.find_one({"_id": ObjectId(order_id)}); return to_str_id(doc)
create_order_fetch(s, order_id) == to_str_id(s, s.orders, order_id)

\* update_order: doc = find_one(...), 404 if not doc; current = Order(...)
\* from doc; the fields of the body assigned to current;
\* current = compute_order_totals(current); update_doc = current.model_dump()
update_order_find(s, order_id, payload) ==
    IF ~FindById(s.orders, order_id)
    THEN Return(s, 404, "Order not found")
    ELSE
      LET doc == DocById(s.orders, order_id)
          data == model_dump_exclude_none(payload)
          \* current.<field> = data[<field>] for the four fields of OrderUpdate
          current == SetFields(Fields(doc), data)
      IN IF ~OrderValid(Fields(doc))
         \* Order(...) rejects the stored values
         THEN Return(s, 500, "ValidationError")
         ELSE IF "items" \in DOMAIN data /\ Len(data.items) > 0
         \* data["items"] is a list of dicts: item.unit_price raises
         THEN Return(s, 500, "AttributeError")
         ELSE Continue(s, "uo_update",
                       [order_id |-> order_id,
                        update_doc |-> compute_order_totals(current)])

\* res = db.order.update_one({"_id": ObjectId(order_id)}, {"$set": update_doc});
\* 404 if res.matched_count == 0
update_order_update(s, l) ==
    LET oid == ObjectId(l.order_id)
        matched_count == Cardinality({o \in s.orders : o._id = oid})
        updated == {IF o._id = oid THEN SetFields(o, l.update_doc) ELSE o :
                        o \in s.orders}
    IN IF matched_count = 0
       THEN Return(s, 404, "Order not found")
       ELSE Continue([s EXCEPT !.orders = updated], "uo_get", l.order_id)

\* return get_order(order_id)
update_order_get(s, order_id) == get_order(s, order_id)

\* delete_order: res = db.order.delete_one(...); 404 if res.deleted_count == 0
delete_order_delete(s, order_id) ==
    LET after == DeleteById(s.orders, ObjectId(order_id))
    IN IF DeletedCount(s.orders, after) = 0
       THEN Return(s, 404, "Order not found")
       ELSE Return([s EXCEPT !.orders = after], 200, "ok")

(***************************************************************************)
(* A handler run from its first store call to its response with no step of *)
(* another request in between.                                             *)
(***************************************************************************)
\* The store call at `label`, with the locals l.
StepAt(s, label, l) ==
    CASE label = "cc_insert" -> create_customer_insert(s, l)
      [] label = "cc_fetch" -> create_customer_fetch(s, l)
      [] label = "uc_update" -> update_customer_update(s, l)
      [] label = "uc_get" -> update_customer_get(s, l)
      [] label = "dc_delete" -> delete_customer_delete(s, l)
      [] label = "co_insert" -> create_order_insert(s, l)
      [] label = "co_fetch" -> create_order_fetch(s, l)
      [] label = "uo_update" -> update_order_update(s, l)
      [] label = "uo_get" -> update_order_get(s, l)

RECURSIVE Run(_)
Run(r) == IF r.pc = "done" THEN r ELSE Run(StepAt(r.store, r.pc, TheVal(r.loc)))

create_customer_h(s, payload) == Run(create_customer_find(s, payload))
update_customer_h(s, customer_id, payload) == Run(update_customer_begin(s, customer_id, payload))
delete_customer_h(s, customer_id) == Run(delete_customer_find(s, customer_id))
create_order_h(s, payload) == Run(create_order_find(s, payload))
update_order_h(s, order_id, payload) == Run(update_order_find(s, order_id, payload))
delete_order_h(s, order_id) == Run(delete_order_delete(s, order_id))

(***************************************************************************)
(* Requests                                                                *)
(***************************************************************************)
Emails == {"a@x.io", "b@x.io"}

\* Bodies of POST /api/customers (Customer: status is a validated Literal).
CustomerCreates == [email : Emails, status : {"active"}]

\* Bodies of PUT /api/customers/{id} (CustomerUpdate: status is any str).
CustomerUpdates ==
    [email : {None} \cup {Some(e) : e \in Emails},
     status : {None, Some("inactive"), Some("blocked")}]

\* 0.125 * 1 and 0.125 * 3 are exact products that lie half-way between two
\* hundredths; 2.675 is the float just below 2.675; 1e999 is parsed to inf.
ItemA1 == [product_name |-> "A", unit_price |-> Milli(125), quantity |-> 1,
           line_total |-> None]
ItemA3 == [product_name |-> "A", unit_price |-> Milli(125), quantity |-> 3,
           line_total |-> None]
ItemB == [product_name |-> "B", unit_price |-> Milli(2675), quantity |-> 1,
          line_total |-> Some(Milli(9990))]
ItemHuge == [product_name |-> "C", unit_price |-> Inf, quantity |-> 1,
             line_total |-> None]

ItemLists == {<<>>, <<ItemA1>>, <<ItemB, ItemA3>>, <<ItemHuge>>}
\* 0, 0.005, 2.0 and 150.0
DiscountValues == {Zero, Milli(5), Milli(2000), Milli(150000)}
\* subtotal / total as the client sends them in a create body: the default
\* 0.0, or a value of the client's own with the two-item list.
ClientTotal(its) == IF Len(its) = 2 THEN Milli(7770) ELSE Zero

\* Bodies of POST /api/orders (Order: status and discount_type are validated).
OrderCreates ==
    {[customer_id |-> c, status |-> "draft", items |-> its, discount_type |-> dt,
      discount_value |-> dv, subtotal |-> ClientTotal(its), total |-> ClientTotal(its)] :
        c \in IdStr, its \in ItemLists, dt \in DiscountTypes, dv \in DiscountValues}

\* Bodies of PUT /api/orders/{id} (OrderUpdate: status and discount_type are
\* any str).
NoOrderUpdate == [status |-> None, discount_type |-> None, discount_value |-> None, items |-> None]
OrderUpdates ==
    {NoOrderUpdate}
    \cup {[NoOrderUpdate EXCEPT !.status = Some(st)] : st \in {"paid", "refunded"}}
    \cup {[NoOrderUpdate EXCEPT !.discount_type = Some(dt)] : dt \in {"amount", "percent", "coupon"}}
    \cup {[NoOrderUpdate EXCEPT !.discount_value = Some(dv)] : dv \in DiscountValues}
    \cup {[NoOrderUpdate EXCEPT !.items = Some(its)] : its \in ItemLists}
    \cup {[NoOrderUpdate EXCEPT !.discount_type = Some("percent"),
                                !.discount_value = Some(Milli(2000))]}

\* The order bodies of the customer-centred specifications: no items, no
\* discount.
PlainOrderCreates ==
    {p \in OrderCreates : /\ p.items = <<>> /\ p.discount_type = "amount"
                          /\ p.discount_value = Zero}
PlainOrderUpdates == {[NoOrderUpdate EXCEPT !.status = Some(st)] : st \in {"paid", "refunded"}}

\* The order bodies whose customer_id is spelled as the API returns ids.
CanonicalOrderCreates == {p \in OrderCreates : p.customer_id \in CanonicalIdStr}

(***************************************************************************)
(* Worker threads                                                          *)
(***************************************************************************)
Threads == {"a", "b"}

\* Thread t is not in the middle of a request.
Free(t) == pc[t] \in {"idle", "done"}

InsertLabels == {"cc_insert", "co_insert"}

\* No more than MaxIds documents are ever inserted: a request goes on to
\* its insert only while an id is left for it.
IdLeftFor(r) ==
    r.pc \in InsertLabels =>
        nextId + Cardinality({u \in Threads : pc[u] \in InsertLabels}) <= MaxIds

\* Thread t has made a store call with outcome r.
Take(t, r) ==
    /\ customers' = r.store.customers
    /\ orders' = r.store.orders
    /\ nextId' = r.store.nextId
    /\ pc' = [pc EXCEPT ![t] = r.pc]
    /\ loc' = [loc EXCEPT ![t] = r.loc]
    /\ resp' = [resp EXCEPT ![t] = r.resp]
    /\ UNCHANGED pricingVars

\* Thread t picks up a request: req records the operation and the id in
\* its path, and the handler runs up to and including its first store call.
Accept(t, op, id, r) ==
    /\ Free(t)
    /\ IdLeftFor(r)
    /\ req' = [req EXCEPT ![t] = [op |-> op, id |-> id]]
    /\ Take(t, r)

create_customer(t, p) ==
    /\ Accept(t, "create_customer", None, create_customer_find(Store, p))

cc_insert(t) ==
    /\ pc[t] = "cc_insert"
    /\ Take(t, create_customer_insert(Store, TheVal(loc[t])))
    /\ UNCHANGED req

cc_fetch(t) ==
    /\ pc[t] = "cc_fetch"
    /\ Take(t, create_customer_fetch(Store, TheVal(loc[t])))
    /\ UNCHANGED req

update_customer(t, id, p) ==
    /\ Accept(t, "update_customer", Some(id), update_customer_begin(Store, id, p))

uc_update(t) ==
    /\ pc[t] = "uc_update"
    /\ Take(t, update_customer_update(Store, TheVal(loc[t])))
    /\ UNCHANGED req

uc_get(t) ==
    /\ pc[t] = "uc_get"
    /\ Take(t, update_customer_get(Store, TheVal(loc[t])))
    /\ UNCHANGED req

delete_customer(t, id) ==
    /\ Accept(t, "delete_customer", Some(id), delete_customer_find(Store, id))

dc_delete(t) ==
    /\ pc[t] = "dc_delete"
    /\ Take(t, delete_customer_delete(Store, TheVal(loc[t])))
    /\ UNCHANGED req

create_order(t, p) ==
    /\ Accept(t, "create_order", None, create_order_find(Store, p))

co_insert(t) ==
    /\ pc[t] = "co_insert"
    /\ Take(t, create_order_insert(Store, TheVal(loc[t])))
    /\ UNCHANGED req

co_fetch(t) ==
    /\ pc[t] = "co_fetch"
    /\ Take(t, create_order_fetch(Store, TheVal(loc[t])))
    /\ UNCHANGED req

update_order(t, id, p) ==
    /\ Accept(t, "update_order", Some(id), update_order_find(Store, id, p))

uo_update(t) ==
    /\ pc[t] = "uo_update"
    /\ Take(t, update_order_update(Store, TheVal(loc[t])))
    /\ UNCHANGED req

uo_get(t) ==
    /\ pc[t] = "uo_get"
    /\ Take(t, update_order_get(Store, TheVal(loc[t])))
    /\ UNCHANGED req

delete_order(t, id) ==
    /\ Accept(t, "delete_order", Some(id), delete_order_delete(Store, id))

NoRequest == [op |-> "none", id |-> None]

InitThreads ==
    /\ pc = [t \in Threads |-> "idle"]
    /\ req = [t \in Threads |-> NoRequest]
    /\ loc = [t \in Threads |-> None]
    /\ resp = [t \in Threads |-> Idle]

InitPricingIdle == orderObj = None /\ phase = "idle"

\* The empty store.
Init ==
    /\ customers = {} /\ orders = {} /\ nextId = 1
    /\ InitThreads /\ InitPricingIdle

(***************************************************************************)
(* Requests processed one at a time: one thread serves them, each handler  *)
(* runs to its response before the next request is picked up.              *)
(***************************************************************************)
Next ==
    \/ \E p \in CustomerCreates : create_customer("a", p)
    \/ cc_insert("a")
    \/ cc_fetch("a")
    \/ \E id \in IdStr, p \in CustomerUpdates : update_customer("a", id, p)
    \/ uc_update("a")
    \/ uc_get("a")
    \/ \E id \in IdStr : delete_customer("a", id)
    \/ dc_delete("a")
    \/ \E p \in PlainOrderCreates : create_order("a", p)
    \/ co_insert("a")
    \/ co_fetch("a")
    \/ \E id \in IdStr, p \in PlainOrderUpdates : update_order("a", id, p)
    \/ uo_update("a")
    \/ uo_get("a")
    \/ \E id \in IdStr : delete_order("a", id)

Spec == Init /\ [][Next]_vars

\* Order requests, one at a time, against a store that holds one customer;
\* ids are spelled as the API returns them.
InitOrders ==
    /\ customers = create_document({}, [email |-> "a@x.io", status |-> "active"], 1)
    /\ orders = {} /\ nextId = 2
    /\ InitThreads /\ InitPricingIdle

NextOrders ==
    \/ \E p \in CanonicalOrderCreates : create_order("a", p)
    \/ co_insert("a")
    \/ co_fetch("a")
    \/ \E id \in CanonicalIdStr, p \in OrderUpdates : update_order("a", id, p)
    \/ uo_update("a")
    \/ uo_get("a")
    \/ \E id \in CanonicalIdStr : delete_order("a", id)

SpecOrders == InitOrders /\ [][NextOrders]_vars

(***************************************************************************)
(* Requests served concurrently by the worker threads: the store calls of  *)
(* two requests interleave in every order.  Ids are spelled as the API     *)
(* returns them.                                                           *)
(***************************************************************************)
ConcCustomerUpdates == {p \in CustomerUpdates : p.status = None /\ p.email # None}
ConcOrderUpdates ==
    {[NoOrderUpdate EXCEPT !.status = Some("paid")],
     [NoOrderUpdate EXCEPT !.discount_value = Some(Milli(150000))]}

NextConc ==
    \E t \in Threads :
        \/ \E p \in CustomerCreates : create_customer(t, p)
        \/ cc_insert(t)
        \/ cc_fetch(t)
        \/ \E id \in CanonicalIdStr, p \in ConcCustomerUpdates : update_customer(t, id, p)
        \/ uc_update(t)
        \/ uc_get(t)
        \/ \E id \in CanonicalIdStr : delete_customer(t, id)
        \/ dc_delete(t)
        \/ \E p \in PlainOrderCreates \cap CanonicalOrderCreates : create_order(t, p)
        \/ co_insert(t)
        \/ co_fetch(t)
        \/ \E id \in CanonicalIdStr, p \in ConcOrderUpdates : update_order(t, id, p)
        \/ uo_update(t)
        \/ uo_get(t)
        \/ \E id \in CanonicalIdStr : delete_order(t, id)

SpecConc == Init /\ [][NextConc]_vars

(***************************************************************************)
(* compute_order_totals on its own                                         *)
(***************************************************************************)
MaxItems == 2

PricingItems == {ItemA1, ItemA3, ItemB, ItemHuge}
PricingItemLists == UNION {[1..n -> PricingItems] : n \in 0..MaxItems}
PricingDiscountValues == DiscountValues \cup {Inf}

\* The Order objects the validation of a create body lets through.
PricingInputs ==
    {[customer_id |-> StrOfId(1), status |-> "draft", items |-> its,
      discount_type |-> dt, discount_value |-> dv,
      subtotal |-> ClientTotal(its), total |-> ClientTotal(its)] :
        its \in PricingItemLists, dt \in DiscountTypes, dv \in PricingDiscountValues}

InitPricing ==
    /\ customers = {} /\ orders = {} /\ nextId = 1
    /\ InitThreads
    /\ orderObj \in {Some(o) : o \in PricingInputs}
    /\ phase = "input"

\* orderObj = compute_order_totals(orderObj)
Compute ==
    /\ phase = "input"
    /\ orderObj' = Some(compute_order_totals(TheVal(orderObj)))
    /\ phase' = "computed"
    /\ UNCHANGED <<storeVars, threadVars>>

NextPricing == Compute

SpecPricing == InitPricing /\ [][NextPricing]_vars

(***************************************************************************)
(* Properties                                                              *)
(***************************************************************************)
\* The order refers to the customer the id string addresses.
References(o, id) == ObjectId(o.customer_id) = ObjectId(id)

\* The request whose run is r has left both collections as they are.
Unchanged(r) == r.store.customers = customers /\ r.store.orders = orders

\* C1: with requests processed one at a time, every stored order's
\* customer_id is the id of a customer that is currently stored.
C1_ReferentialIntegrity ==
    \A o \in orders : \E c \in customers : c._id = ObjectId(o.customer_id)

\* C2: for a stored customer c, delete_customer(c) succeeds (c removed,
\* everything else unchanged) if and only if no stored order refers to c;
\* otherwise it fails with 400 and changes nothing.
C2_DeleteCustomerIffNoOrders ==
    \A id \in IdStr :
        FindById(customers, id) =>
            LET r == delete_customer_h(Store, id)
            IN IF \E o \in orders : References(o, id)
               THEN r.resp.status = 400 /\ Unchanged(r)
               ELSE /\ r.resp.status = 200
                    /\ r.store.customers = customers \ {DocById(customers, id)}
                    /\ r.store.orders = orders

\* C3: create_order with a customer_id that matches no stored customer
\* fails with 400 "Invalid customer_id" whatever the items, discount and
\* status of the body, and inserts nothing.
C3_InvalidCustomerRejected ==
    \A p \in OrderCreates :
        (~\E c \in customers : c._id = ObjectId(p.customer_id)) =>
            LET r == create_order_h(Store, p)
            IN /\ r.resp.status = 400 /\ r.resp.detail = "Invalid customer_id"
               /\ Unchanged(r)
               /\ r.store.nextId = nextId

\* A create_order request has been refused for its customer_id while a
\* customer is stored.
C3_Witness ==
    /\ req["a"].op = "create_order"
    /\ resp["a"].status = 400 /\ resp["a"].detail = "Invalid customer_id"
    /\ customers # {}
    /\ orders = {}

UniqueEmails == \A c, d \in customers : c.email = d.email => c = d

\* C4: with requests processed one at a time, no two stored customers have
\* the same email; create_customer with a stored email fails with 400 and
\* inserts nothing; update_customer setting the email to one held by a
\* different customer fails with 400 and changes nothing; update_customer
\* setting a customer's email to its own current email succeeds.
C4_EmailUnique ==
    /\ UniqueEmails
    /\ \A p \in CustomerCreates :
           (\E c \in customers : c.email = p.email) =>
               LET r == create_customer_h(Store, p)
               IN r.resp.status = 400 /\ Unchanged(r)
    /\ \A id \in IdStr, p \in CustomerUpdates :
           (FindById(customers, id) /\ p.email # None) =>
               LET r == update_customer_h(Store, id, p)
                   me == DocById(customers, id)
               IN /\ (\E c \in customers : c # me /\ c.email = TheVal(p.email)) =>
                          (r.resp.status = 400 /\ Unchanged(r))
                  /\ me.email = TheVal(p.email) => r.resp.status = 200

\* Two customers are stored and an update of one of them has just been
\* refused because its email belongs to the other.
C4_Witness ==
    /\ Cardinality(customers) = 2
    /\ req["a"].op = "update_customer"
    /\ FindById(customers, TheVal(req["a"].id))
    /\ resp["a"].status = 400 /\ resp["a"].detail = "Email already exists"

\* C5 (as claimed): update_customer on an id that matches no stored customer
\* fails with 404 for every update body and leaves the store unchanged.
C5_UnknownCustomerAlways404 ==
    \A id \in IdStr, p \in CustomerUpdates :
        ~FindById(customers, id) =>
            LET r == update_customer_h(Store, id, p)
            IN r.resp.status = 404 /\ Unchanged(r)

\* C5 (amended): update_customer on an id that matches no stored customer
\* leaves the store unchanged and fails with 404, except that a body whose
\* email some stored customer holds fails with 400 "Email already exists".
C5_UnknownCustomer404Or400 ==
    \A id \in IdStr, p \in CustomerUpdates :
        ~FindById(customers, id) =>
            LET r == update_customer_h(Store, id, p)
            IN /\ Unchanged(r)
               /\ IF p.email # None /\ \E c \in customers : c.email = TheVal(p.email)
                  THEN r.resp.status = 400 /\ r.resp.detail = "Email already exists"
                  ELSE r.resp.status = 404 /\ r.resp.detail = "Customer not found"

\* An update addressed to an id that matches no stored customer has just
\* been answered 400 because a stored customer holds the email of its body.
C5_Witness ==
    /\ req["a"].op = "update_customer"
    /\ ~FindById(customers, TheVal(req["a"].id))
    /\ customers # {}
    /\ resp["a"].status = 400 /\ resp["a"].detail = "Email already exists"

\* The effective discount of section 4.1, for the two discount types.
EffectiveDiscount(o) ==
    IF o.discount_type = "amount"
    THEN PyMin(o.discount_value, o.subtotal)
    ELSE PyMin(Round2(FMul(o.subtotal, FDivInt(o.discount_value, 100))), o.subtotal)

\* C6: with requests processed one at a time, every stored order has
\* line_total = round(unit_price * quantity, 2) for each item, subtotal =
\* the rounded sum of the line totals, and total = max(subtotal - effective
\* discount, 0), to 2 decimals as section 3 gives it.
C6_TotalsFollowItems ==
    \A o \in orders :
        /\ \A i \in 1..Len(o.items) :
               /\ o.items[i].line_total # None
               /\ FEq(TheVal(o.items[i].line_total),
                      Round2(FMul(o.items[i].unit_price, FromInt(o.items[i].quantity))))
        /\ FEq(o.subtotal, Round2(Accumulate(o.items, Len(o.items))))
        /\ o.discount_type \in DiscountTypes =>
               FEq(o.total, Round2(PyMax(FSub(o.subtotal, EffectiveDiscount(o)), Zero)))

\* An update body that carries only an item list.
ItemsUpdate(its) == [NoOrderUpdate EXCEPT !.items = Some(its)]

\* C7: update_order on a stored order with a body that carries an item list
\* (empty or not) succeeds, and the stored items are then exactly the
\* supplied list, with line totals, subtotal and total recomputed from it.
C7_ItemsReplaced ==
    \A id \in IdStr, its \in ItemLists :
        (FindById(orders, id) /\ OrderValid(Fields(DocById(orders, id)))) =>
            LET r == update_order_h(Store, id, ItemsUpdate(its))
                o == DocById(r.store.orders, id)
            IN /\ r.resp.status = 200
               /\ o.items = WithLineTotals(its)
               /\ o.subtotal = Round2(Accumulate(o.items, Len(o.items)))
               /\ (its = <<>> => o.subtotal = Zero /\ o.total = Zero)

Hundred == FromInt(100)

\* C8: compute_order_totals yields 0 <= total <= subtotal; total is 0 for an
\* amount discount above the subtotal and for a percent discount of 100 or
\* more; total equals subtotal for a discount_value of 0.
C8_TotalWithinBounds ==
    phase = "computed" =>
        LET o == TheVal(orderObj)
        IN /\ FGe(o.total, Zero)
           /\ FGe(o.subtotal, o.total)
           /\ (o.discount_type = "amount" /\ FLess(o.subtotal, o.discount_value)) =>
                  FEq(o.total, Zero)
           /\ (o.discount_type = "percent" /\ FGe(o.discount_value, Hundred)) =>
                  FEq(o.total, Zero)
           /\ o.discount_value = Zero => FEq(o.total, o.subtotal)

\* C9: every stored order's status and discount_type and every stored
\* customer's status is a value of its enum, and every stored order can be
\* loaded and updated again by update_order.
C9_EnumsValid ==
    /\ \A c \in customers : c.status \in CustomerStatuses
    /\ \A o \in orders :
           /\ o.status \in OrderStatuses
           /\ o.discount_type \in DiscountTypes
           /\ update_order_h(Store, StrOfId(o._id), NoOrderUpdate).resp.status = 200

\* Thread t has answered 200 to a create_order whose order o is stored, and
\* thread u has answered 200 to delete_customer for the very id string that
\* o carries as its customer_id.
BothSucceeded(t, u, o) ==
    /\ pc[t] = "done" /\ req[t].op = "create_order" /\ resp[t].status = 200
    /\ resp[t].id = Some(StrOfId(o._id))
    /\ pc[u] = "done" /\ req[u].op = "delete_customer" /\ resp[u].status = 200
    /\ req[u].id = Some(o.customer_id)

\* C10: when create_order for customer c and delete_customer(c) interleave
\* and both return success, the store is left with an order whose
\* customer_id refers to no stored customer.
C10_RaceLeavesDanglingOrder ==
    \A t, u \in Threads :
        \A o \in orders :
            BothSucceeded(t, u, o) => ~FindById(customers, o.customer_id)

\* Both requests, for the same id string, have returned success and the
\* order is stored without its customer.
C10_Witness ==
    \E t, u \in Threads :
        \E o \in orders :
            BothSucceeded(t, u, o) /\ ~FindById(customers, o.customer_id)

=============================================================================
